---- MODULE Spec2Model ----
(***************************************************************************)
(* A model of halo2_proofs/src/arithmetic.rs: the work splitter            *)
(* (parallelize), the multi-scalar multiplication (multiexp_serial,        *)
(* small_multiexp, multiexp_cpu, best_multiexp, multiexp_gpu), the radix-2 *)
(* FFT (cpu_fft, recursive_butterfly_arithmetic) and the polynomial        *)
(* utilities (eval_polynomial, kate_division, lagrange_interpolate).       *)
(*                                                                         *)
(* Field elements are the integers modulo the prime P, group elements the  *)
(* integers modulo the prime Q under addition; scalars keep the 32-byte    *)
(* little-endian representation the code reads.                            *)
(***************************************************************************)
EXTENDS Integers, Sequences, FiniteSets, TLC

VARIABLES
    pc,           \* position of the call under study
    num_threads,  \* multicore::current_num_threads()
    \* ---- build and environment
    gpu,          \* the build has feature "cuda" or "opencl"
    device,       \* the accelerator: "ok", "no_device", "kernel_init_fails", "call_fails"
    logging,      \* the build has feature "logging"
    sink,         \* the log file: "ok", "open_fails", "write_fails"
    faulty,       \* indices of the spawned closures that panic when run
    panicked,     \* indices of the spawned closures that have panicked
    \* ---- parallelize
    v,            \* the slice handed to parallelize: element i is original index i
    tasks,        \* closures spawned in the scope: <<[chunk, offset], ...>> in spawn order
    ran,          \* indices of the spawned closures that have run
    calls,        \* the invocations f(chunk, offset), in the order they ran
    visits,       \* visits[i]: how many times original index i was handed to f
    \* ---- polynomial utilities
    op,           \* the function called: "eval_polynomial", "kate_division", "lagrange_interpolate"
    poly,         \* eval_polynomial's poly / kate_division's a (coefficient i at position i+1)
    point,        \* eval_polynomial's point / kate_division's b
    points,       \* lagrange_interpolate's points
    evals,        \* lagrange_interpolate's evals
    out,          \* the value returned
    \* ---- FFT
    a_buf,        \* cpu_fft's buffer a
    omega,        \* cpu_fft's omega
    log_n,        \* cpu_fft's log_n
    twiddles,     \* cpu_fft's twiddle table
    round,        \* rounds of the flat butterfly pass done so far
    a_in,         \* the buffer as passed to the current cpu_fft call
    a_rev,        \* the buffer of the current call after the bit-reversal loop
    a_orig,       \* the buffer before the first call
    phase,        \* "forward", "inverse" (second call, with omega^-1), "scaled"
    rec_done,     \* calls <<start, n>> of recursive_butterfly_arithmetic that have returned
    fft_entry,    \* the function called: "cpu_fft", "best_fft", "gpu_fft"
    \* ---- multi-exponentiation
    entry,        \* the function called: "multiexp_cpu", "best_multiexp", "small_multiexp"
    arg_coeffs,   \* the argument coeffs: scalars as 32 little-endian bytes (to_repr)
    arg_bases,    \* the argument bases: group elements
    results,      \* multiexp_cpu's results vector, one slot per chunk
    msm_ran,      \* indices of the chunk closures that have run
    result,       \* the value returned
    work,         \* chunk or whole-input reductions started (accelerator calls included)
    \* the segment loop of multiexp_serial for one coefficient
    c_width,          \* c, the window width
    cur_segment,      \* current_segment, the segment get_at is called for next
    repr,             \* the coefficient's to_repr() bytes
    digits,           \* get_at's results so far, by segment
    \* one chain of nested calls of recursive_butterfly_arithmetic
    rec_n0,           \* n of the outermost call
    rec_n,            \* n of the innermost call entered
    rec_depth         \* calls entered below the outermost one

parVars == <<v, tasks, ran, calls, visits>>
polyVars == <<op, poly, point, points, evals, out>>
fftVars == <<a_buf, omega, log_n, twiddles, round, a_in, a_rev, a_orig, phase, rec_done,
            fft_entry>>
msmVars == <<entry, arg_coeffs, arg_bases, results, msm_ran, result, work>>
envVars == <<gpu, device, logging, sink, faulty, panicked>>
digitVars == <<c_width, cur_segment, repr, digits>>
recVars == <<rec_n0, rec_n, rec_depth>>
vars == <<pc, num_threads, envVars, parVars, polyVars, fftVars, msmVars, digitVars,
         recVars>>

\* ------------------------------------------------------------------ bounds

MaxThreads == 4
MaxLen == 6
MaxPoly == 4
MaxLogN == 3
MaxTerms == 1

\* ----------------------------------------------------------- slice helpers

Min(x, y) == IF x <= y THEN x ELSE y
Max(x, y) == IF x >= y THEN x ELSE y
Range(s) == {s[i] : i \in 1..Len(s)}

\* a Vec<_>: the elements of f are computed once and stored
Vec(f) == f \o <<>>

\* slice::split_at_mut(mid): (s[..mid], s[mid..]); panics when mid > len
SplitAtMut(s, mid) == <<SubSeq(s, 1, mid), SubSeq(s, mid + 1, Len(s))>>

\* slice::chunks_exact_mut(size): len / size chunks of exactly size elements,
\* the remainder (len % size elements) is left out
ChunksExact(s, size) ==
    [k \in 1..(Len(s) \div size) |-> SubSeq(s, (k - 1) * size + 1, k * size)]

\* slice::chunks(size): ceil(len / size) chunks, the last one may be shorter
Chunks(s, size) ==
    [k \in 1..((Len(s) + size - 1) \div size) |->
        SubSeq(s, (k - 1) * size + 1, Min(k * size, Len(s)))]

\* ------------------------------------------------------------ parallelize

BaseChunkSize(total_iters, T) == total_iters \div T
CutoffChunkId(total_iters, T) == total_iters % T

SplitPosNoCarry(cutoff_chunk_id, base_chunk_size) == cutoff_chunk_id * base_chunk_size
SplitPos(cutoff_chunk_id, base_chunk_size) == cutoff_chunk_id * (base_chunk_size + 1)

HiOffset(chunk_id, base_chunk_size) == chunk_id * (base_chunk_size + 1)

LoOffsetNoSplit(split_pos, chunk_id, base_chunk_size) == chunk_id * base_chunk_size
LoOffset(split_pos, chunk_id, base_chunk_size) == split_pos + (chunk_id * base_chunk_size)

\* The closures parallelize spawns for slice s on T threads, in spawn order.
\* chunk_id is 0-based as in the code (enumerate()).
ParallelizeTasks(s, T) ==
    LET total_iters == Len(s)
        base_chunk_size == BaseChunkSize(total_iters, T)
        cutoff_chunk_id == CutoffChunkId(total_iters, T)
        split_pos == SplitPos(cutoff_chunk_id, base_chunk_size)
        v_hi == SplitAtMut(s, split_pos)[1]
        v_lo == SplitAtMut(s, split_pos)[2]
        hiChunks == ChunksExact(v_hi, base_chunk_size + 1)
        hi == IF cutoff_chunk_id # 0
              THEN [k \in 1..Len(hiChunks) |->
                       [chunk |-> hiChunks[k],
                        offset |-> HiOffset(k - 1, base_chunk_size)]]
              ELSE <<>>
        lo == IF base_chunk_size # 0
              THEN LET loChunks == ChunksExact(v_lo, base_chunk_size)
                   IN [k \in 1..Len(loChunks) |->
                          [chunk |-> loChunks[k],
                           offset |-> LoOffset(split_pos, k - 1, base_chunk_size)]]
              ELSE <<>>
    IN hi \o lo

ParIdle ==
    /\ v = <<>>
    /\ tasks = <<>>
    /\ ran = {}
    /\ calls = <<>>
    /\ visits = <<>>

PolyIdle ==
    /\ op = "none"
    /\ poly = <<>>
    /\ point = 0
    /\ points = <<>>
    /\ evals = <<>>
    /\ out = <<>>

FftIdle ==
    /\ a_buf = <<>>
    /\ omega = 0
    /\ log_n = 0
    /\ twiddles = <<>>
    /\ round = 0
    /\ a_in = <<>>
    /\ a_rev = <<>>
    /\ a_orig = <<>>
    /\ phase = "none"
    /\ rec_done = {}
    /\ fft_entry = "none"

MsmIdle ==
    /\ entry = "none"
    /\ arg_coeffs = <<>>
    /\ arg_bases = <<>>
    /\ results = <<>>
    /\ msm_ran = {}
    /\ result = 0
    /\ work = 0

RecIdle ==
    /\ rec_n0 = 0
    /\ rec_n = 0
    /\ rec_depth = 0

DigitIdle ==
    /\ c_width = 0
    /\ cur_segment = 0
    /\ repr = <<>>
    /\ digits = <<>>

\* the states of the accelerator and of the log file
Devices == {"ok", "no_device", "kernel_init_fails", "call_fails"}
Sinks == {"ok", "open_fails", "write_fails"}

\* log_msm_stats / log_fft_stats, compiled in with feature "logging": the
\* log file is opened with unwrap(); the results of write_record and flush
\* are dropped
LogStatsPanics == logging /\ sink = "open_fails"

\* a build without accelerator or logging, and closures that do not panic
EnvIdle ==
    /\ gpu = FALSE
    /\ device = "ok"
    /\ logging = FALSE
    /\ sink = "ok"
    /\ faulty = {}
    /\ panicked = {}

\* multicore::scope(|scope| ..): the scope returns when every spawned closure
\* has finished, and if one of them panicked it does not return normally but
\* lets the panic go on into the caller
ScopeNeverPanics(p) == FALSE
ScopePanics(p) == p # {}

\* the closures that may be made to panic: any one of them, or the first two
FaultySets == {{}} \cup {{k} : k \in 1..MaxThreads} \cup {{1, 2}}

ParInit ==
    /\ gpu = FALSE
    /\ device = "ok"
    /\ logging = FALSE
    /\ sink = "ok"
    /\ faulty \in FaultySets
    /\ panicked = {}
    /\ pc = "par_call"
    /\ PolyIdle
    /\ FftIdle
    /\ MsmIdle
    /\ DigitIdle
    /\ RecIdle
    /\ num_threads \in 1..MaxThreads
    /\ \E N \in 0..MaxLen :
          /\ v = [i \in 1..N |-> i - 1]
          /\ visits = [i \in 0..(N - 1) |-> 0]
    /\ tasks = <<>>
    /\ ran = {}
    /\ calls = <<>>

\* parallelize up to the end of the spawn loops: every closure is spawned.
\* split_at_mut panics when split_pos exceeds the length.
ParallelizeSpawn ==
    /\ pc = "par_call"
    /\ IF SplitPos(CutoffChunkId(Len(v), num_threads),
                   BaseChunkSize(Len(v), num_threads)) > Len(v)
       THEN /\ pc' = "par_panic"
            /\ tasks' = tasks
       ELSE /\ pc' = "par_scope"
            /\ tasks' = ParallelizeTasks(v, num_threads)
    /\ UNCHANGED <<msmVars, envVars, num_threads, v, ran, calls, visits, polyVars, digitVars, recVars, fftVars>>

\* A worker of the pool runs one spawned closure: f(chunk, offset).
\* f here records the invocation and marks every element of its chunk; a
\* faulty closure panics before it has marked any.
ParallelizeWorker ==
    /\ pc = "par_scope"
    /\ \E k \in (1..Len(tasks)) \ ran :
          /\ ran' = ran \cup {k}
          /\ calls' = Append(calls, tasks[k])
          /\ IF k \in faulty
             THEN /\ panicked' = panicked \cup {k}
                  /\ UNCHANGED visits
             ELSE /\ visits' = [i \in DOMAIN visits |->
                                   IF i \in Range(tasks[k].chunk)
                                   THEN visits[i] + 1 ELSE visits[i]]
                  /\ UNCHANGED panicked
    /\ UNCHANGED <<msmVars, gpu, device, logging, sink, faulty, pc, num_threads, v, tasks,
                   polyVars, digitVars, recVars, fftVars>>

\* multicore::scope returns once every spawned closure has finished.
ParallelizeReturn ==
    /\ pc = "par_scope"
    /\ ran = 1..Len(tasks)
    /\ pc' = IF ScopePanics(panicked) THEN "par_panic" ELSE "par_done"
    /\ UNCHANGED <<msmVars, envVars, num_threads, parVars, polyVars, digitVars, recVars, fftVars>>

ParNext == ParallelizeSpawn \/ ParallelizeWorker \/ ParallelizeReturn

SpecPar == ParInit /\ [][ParNext]_vars

ParSpawned == pc \in {"par_scope", "par_done"}

\* C1: for every length N >= 0 and worker count T >= 1 the chunks parallelize
\* hands to f cover [0,N) with every index in exactly one chunk, every chunk
\* is a contiguous run of indices, the chunks are in the original order, and
\* the sizes of any two chunks differ by at most 1.
C1_PartitionLaw ==
    ParSpawned =>
        /\ \A i \in 0..(Len(v) - 1) :
              Cardinality({k \in 1..Len(tasks) :
                  \E j \in 1..Len(tasks[k].chunk) : tasks[k].chunk[j] = i}) = 1
        /\ \A k \in 1..Len(tasks) :
              /\ Cardinality(Range(tasks[k].chunk)) = Len(tasks[k].chunk)
              /\ Range(tasks[k].chunk) \subseteq 0..(Len(v) - 1)
              /\ \A j \in 1..(Len(tasks[k].chunk) - 1) :
                    tasks[k].chunk[j + 1] = tasks[k].chunk[j] + 1
        /\ \A k1, k2 \in 1..Len(tasks) :
              /\ k1 < k2 =>
                    \A x \in Range(tasks[k1].chunk), y \in Range(tasks[k2].chunk) : x < y
              /\ Len(tasks[k1].chunk) - Len(tasks[k2].chunk) \in {-1, 0, 1}
        /\ pc = "par_done" => \A i \in DOMAIN visits : visits[i] = 1

\* C1 witness: a finished call with both a run of larger chunks and a run of
\* smaller ones (5 elements on 3 threads: sizes 2, 2, 1).
C1_Witness ==
    /\ pc = "par_done"
    /\ Len(v) = 5
    /\ num_threads = 3
    /\ Len(tasks) = 3
    /\ Len(tasks[1].chunk) = 2
    /\ Len(tasks[3].chunk) = 1

\* C2: parallelize invokes f exactly once per chunk, min(N, T) times in all
\* (never when N = 0), and in every invocation f(chunk, offset) the offset is
\* the original index of the chunk's first element.
C2_InvocationsAndOffsets ==
    /\ ParSpawned =>
          /\ Len(tasks) = Min(Len(v), num_threads)
          /\ \A k \in 1..Len(tasks) :
                /\ Len(tasks[k].chunk) >= 1
                /\ tasks[k].offset = tasks[k].chunk[1]
          /\ \A c \in 1..Len(calls) :
                /\ Len(calls[c].chunk) >= 1
                /\ calls[c].offset = calls[c].chunk[1]
                /\ \A d \in 1..Len(calls) : calls[c] = calls[d] => c = d
    /\ pc = "par_done" =>
          /\ Len(calls) = Min(Len(v), num_threads)
          /\ Len(v) = 0 => calls = <<>>
          /\ \A k \in 1..Len(tasks) :
                Cardinality({c \in 1..Len(calls) : calls[c] = tasks[k]}) = 1

\* C2 witness: a finished call in which a chunk past the split position was
\* passed a non-zero offset, and fewer elements than threads gave N calls.
C2_Witness ==
    /\ pc = "par_done"
    /\ \/ /\ Len(v) = 5
          /\ num_threads = 3
          /\ \E c \in 1..Len(calls) : calls[c].offset = 4
       \/ /\ Len(v) = 2
          /\ num_threads = 4
          /\ Len(calls) = 2

\* -------------------------------------------------------- field arithmetic

\* The scalar field F (ff::Field): the integers modulo the prime P.
P == 17
Field == 0..(P - 1)

FAdd(x, y) == (x + y) % P
FSub(x, y) == (x - y + P) % P
FMul(x, y) == (x * y) % P
FNeg(x) == (P - x) % P

\* Field::pow_vartime(&[e, 0, 0, 0]): x^e, with x^0 = 1
RECURSIVE FPow(_, _)
FPow(x, e) == IF e = 0 THEN 1 ELSE FMul(x, FPow(x, e - 1))

\* Field::invert of a non-zero element
FInv(x) == FPow(x, P - 2)

\* BatchInvert::batch_invert: every non-zero element is replaced by its
\* inverse, a zero element is skipped and stays zero
BatchInvert(s) == Vec([i \in 1..Len(s) |-> IF s[i] = 0 THEN 0 ELSE FInv(s[i])])

\* iter().fold(F::ZERO, |acc, x| acc + x)
RECURSIVE FSum(_)
FSum(s) == IF s = <<>> THEN 0 ELSE FAdd(FSum(SubSeq(s, 1, Len(s) - 1)), s[Len(s)])

\* -------------------------------------------------------- eval_polynomial

\* eval_polynomial::evaluate: poly.iter().rev().fold(ZERO, |acc, c| acc * point + c)
RECURSIVE Evaluate(_, _)
Evaluate(s, x) ==
    IF s = <<>> THEN 0 ELSE FAdd(FMul(Evaluate(Tail(s), x), x), Head(s))

ChunkSizeFloor(n, T) == n \div T
ChunkSize(n, T) == (n + T - 1) \div T

\* the parts vector after the scope: parts.chunks_mut(1) zipped with
\* poly.chunks(chunk_size); zip stops at the shorter of the two, and a part
\* without a chunk keeps F::ZERO
EvalParts(s, x, T) ==
    LET chunk_size == ChunkSize(Len(s), T)
        polyChunks == Chunks(s, chunk_size)
    IN Vec([k \in 1..T |->
               IF k <= Len(polyChunks)
               THEN FMul(Evaluate(polyChunks[k], x), FPow(x, (k - 1) * chunk_size))
               ELSE 0])

\* poly.chunks(chunk_size) panics on a chunk size of zero
EvalPolynomialPanics(s, T) == ~(Len(s) * 2 < T) /\ ChunkSize(Len(s), T) = 0

EvalPolynomial(s, x, T) ==
    IF Len(s) * 2 < T THEN Evaluate(s, x) ELSE FSum(EvalParts(s, x, T))

\* ---------------------------------------------------------- kate_division

KateKeepSign(b) == b
KateNegate(b) == FNeg(b)

\* the loop over q.iter_mut().rev().zip(a.rev()): q[j] is paired with a[j+1]
RECURSIVE KateLoop(_, _, _, _, _)
KateLoop(a, b, j, tmp, q) ==
    IF j = 0 THEN q
    ELSE LET lead_coeff == FSub(a[j + 1], tmp)
         IN KateLoop(a, b, j - 1, FMul(lead_coeff, b), [q EXCEPT ![j] = lead_coeff])

\* a.len() - 1 underflows for an empty a
KateDivisionPanics(a) == Len(a) = 0

KateDivision(a, b) ==
    KateLoop(a, KateNegate(b), Len(a) - 1, 0, [j \in 1..(Len(a) - 1) |-> 0])

\* ------------------------------------------------------ lagrange_interpolate

\* points.iter().enumerate().filter(|&(k, _)| k != j).map(|a| a.1)
Others(s, j) == SubSeq(s, 1, j - 1) \o SubSeq(s, j + 1, Len(s))

\* denoms[j] = [x_j - x_k : k != j], then batch-inverted
Denoms(pts) ==
    Vec([j \in 1..Len(pts) |->
        BatchInvert(Vec([k \in 1..(Len(pts) - 1) |-> FSub(pts[j], Others(pts, j)[k])]))])

LinearFactorNoShift(tmp, x_k, denom) ==
    Vec([i \in 1..(Len(tmp) + 1) |->
        LET a == IF i <= Len(tmp) THEN tmp[i] ELSE 0
        IN FMul(a, FMul(FNeg(denom), x_k))])

\* one pass of the inner loop: product = tmp * (x - x_k) * denom, with
\* a from tmp.chain(once(0)) and b from once(0).chain(tmp)
LinearFactor(tmp, x_k, denom) ==
    Vec([i \in 1..(Len(tmp) + 1) |->
        LET a == IF i <= Len(tmp) THEN tmp[i] ELSE 0
            b == IF i = 1 THEN 0 ELSE tmp[i - 1]
        IN FAdd(FMul(a, FMul(FNeg(denom), x_k)), FMul(b, denom))])

\* tmp after the first k factors of the j-th basis polynomial
RECURSIVE BasisPoly(_, _, _)
BasisPoly(xs, ds, k) ==
    IF k = 0 THEN <<1>>
    ELSE LinearFactor(BasisPoly(xs, ds, k - 1), xs[k], ds[k])

\* final_poly after the first j basis polynomials were added
RECURSIVE FinalPoly(_, _, _, _)
FinalPoly(pts, evs, denoms, j) ==
    IF j = 0 THEN Vec([i \in 1..Len(pts) |-> 0])
    ELSE LET prev == FinalPoly(pts, evs, denoms, j - 1)
             tmp == BasisPoly(Others(pts, j), denoms[j], Len(pts) - 1)
         IN Vec([i \in 1..Len(pts) |-> FAdd(prev[i], FMul(tmp[i], evs[j]))])

\* assert_eq!(points.len(), evals.len())
LagrangeInterpolatePanics(pts, evs) == Len(pts) # Len(evs)

LagrangeInterpolate(pts, evs) ==
    IF Len(pts) = 1 THEN <<evs[1]>> ELSE FinalPoly(pts, evs, Denoms(pts), Len(pts))

\* ------------------------------------------- calls of the polynomial utilities

\* sequences over S of length at most n
SeqsUpTo(S, n) == UNION {[1..k -> S] : k \in 0..n}

IsInjective(s) == \A i, j \in 1..Len(s) : s[i] = s[j] => i = j

\* test_lagrange_interpolate interpolates up to 5 point/value pairs
MaxPoints == 5

\* the longest points with repeated values
MaxDupPoints == 3

PolyCoeffs == {0, 1, 2, 16}
PolyPoints == {0, 1, 2, 16}
LagrangePoints == {0, 1, 2, 3, 16}
LagrangeEvals == {0, 3}

PolyInit ==
    /\ EnvIdle
    /\ pc = "poly_call"
    /\ ParIdle
    /\ FftIdle
    /\ MsmIdle
    /\ DigitIdle
    /\ RecIdle
    /\ num_threads \in 1..MaxThreads
    /\ out = <<>>
    /\ \/ /\ op \in {"eval_polynomial", "kate_division"}
          /\ poly \in SeqsUpTo(PolyCoeffs, MaxPoly)
          /\ point \in PolyPoints
          /\ points = <<>>
          /\ evals = <<>>
       \/ /\ op = "lagrange_interpolate"
          /\ poly = <<>>
          /\ point = 0
          /\ \E m \in 0..MaxPoints :
                /\ points \in {s \in [1..m -> LagrangePoints] :
                                  IsInjective(s) \/ m <= MaxDupPoints}
                /\ evals \in [1..m -> LagrangeEvals]

\* eval_polynomial(poly, point) on num_threads threads
EvalPolynomialCall ==
    /\ pc = "poly_call"
    /\ op = "eval_polynomial"
    /\ IF EvalPolynomialPanics(poly, num_threads)
       THEN /\ pc' = "poly_panic"
            /\ out' = out
       ELSE /\ pc' = "poly_done"
            /\ out' = EvalPolynomial(poly, point, num_threads)
    /\ UNCHANGED <<msmVars, envVars, num_threads, parVars, fftVars, digitVars, recVars,
                    op, poly, point, points, evals>>

\* kate_division(a, b) with a = poly, b = point
KateDivisionCall ==
    /\ pc = "poly_call"
    /\ op = "kate_division"
    /\ IF KateDivisionPanics(poly)
       THEN /\ pc' = "poly_panic"
            /\ out' = out
       ELSE /\ pc' = "poly_done"
            /\ out' = KateDivision(poly, point)
    /\ UNCHANGED <<msmVars, envVars, num_threads, parVars, fftVars, digitVars, recVars,
                    op, poly, point, points, evals>>

\* lagrange_interpolate(points, evals)
LagrangeInterpolateCall ==
    /\ pc = "poly_call"
    /\ op = "lagrange_interpolate"
    /\ IF LagrangeInterpolatePanics(points, evals)
       THEN /\ pc' = "poly_panic"
            /\ out' = out
       ELSE /\ pc' = "poly_done"
            /\ out' = LagrangeInterpolate(points, evals)
    /\ UNCHANGED <<msmVars, envVars, num_threads, parVars, fftVars, digitVars, recVars,
                    op, poly, point, points, evals>>

PolyNext == EvalPolynomialCall \/ KateDivisionCall \/ LagrangeInterpolateCall

SpecPoly == PolyInit /\ [][PolyNext]_vars

\* C7: for m pairwise distinct points and m values, 0 <= m <= 5,
\* lagrange_interpolate returns m coefficients whose evaluation by
\* eval_polynomial at points[i] is evals[i], for every i.
C7_InterpolationExact ==
    (/\ op = "lagrange_interpolate"
     /\ Len(points) = Len(evals)
     /\ Len(points) <= MaxPoints
     /\ IsInjective(points))
    => /\ pc # "poly_panic"
       /\ pc = "poly_done" =>
             /\ Len(out) = Len(points)
             /\ \A i \in 1..Len(points) :
                   /\ ~EvalPolynomialPanics(out, num_threads)
                   /\ EvalPolynomial(out, points[i], num_threads) = evals[i]

\* C13: lagrange_interpolate called with two equal values in points, with
\* len(points) = len(evals) >= 2, panics instead of returning a polynomial.
C13_DuplicatePointsPanic ==
    (/\ op = "lagrange_interpolate"
     /\ Len(points) = Len(evals)
     /\ Len(points) >= 2
     /\ ~IsInjective(points)
     /\ pc # "poly_call") => pc = "poly_panic"

\* C7 witness: five distinct points with values that are not all equal.
C7_Witness ==
    /\ pc = "poly_done"
    /\ op = "lagrange_interpolate"
    /\ points = <<2, 16, 0, 3, 1>>
    /\ evals = <<3, 0, 0, 3, 3>>
    /\ Len(out) = 5
    /\ out[5] # 0

\* the coefficients of (x - b) * q(x)
TimesLinear(q, b) ==
    Vec([i \in 1..(Len(q) + 1) |->
        FSub(IF i = 1 THEN 0 ELSE q[i - 1],
             FMul(b, IF i <= Len(q) THEN q[i] ELSE 0))])

\* C8: for every non-empty a and every b with a(b) = 0, kate_division(a, b)
\* returns q of length len(a) - 1 with (x - b) * q(x) = a, coefficient by
\* coefficient.
C8_KateDivisionExact ==
    (/\ op = "kate_division"
     /\ Len(poly) >= 1
     /\ Evaluate(poly, point) = 0)
    => /\ pc # "poly_panic"
       /\ pc = "poly_done" =>
             /\ Len(out) = Len(poly) - 1
             /\ TimesLinear(out, point) = poly

\* C8 witness: x^3 + 2x^2 + x = (x + 1)(x^2 + x) divided by x - (-1).
C8_Witness ==
    /\ pc = "poly_done"
    /\ op = "kate_division"
    /\ poly = <<0, 1, 2, 1>>
    /\ point = 16
    /\ out = <<0, 1, 1>>

\* C9: for every poly (the empty one included), every point and every thread
\* count T >= 1, eval_polynomial(poly, point) is the serial Horner value of
\* poly at point: on the chunked path the parts are exactly the chunks' local
\* Horner values weighted by point^(chunk start), one per chunk, the rest zero.
C9_EvalMatchesHorner ==
    (op = "eval_polynomial")
    => /\ pc # "poly_panic"
       /\ pc = "poly_done" =>
             /\ out = Evaluate(poly, point)
             /\ ~(Len(poly) * 2 < num_threads) =>
                   /\ Len(Chunks(poly, ChunkSize(Len(poly), num_threads))) <= num_threads
                   /\ out = FSum(EvalParts(poly, point, num_threads))

\* C9 witness: a chunked evaluation with several chunks, the last one shorter,
\* at a point other than 0 and 1.
C9_Witness ==
    /\ pc = "poly_done"
    /\ op = "eval_polynomial"
    /\ num_threads = 3
    /\ poly = <<1, 2, 16, 2>>
    /\ point = 2
    /\ out = Evaluate(poly, point)

\* ---------------------------------------------------------------- cpu_fft

RECURSIVE Pow2(_)
Pow2(k) == IF k = 0 THEN 1 ELSE 2 * Pow2(k - 1)

\* log2_floor(num): the largest pow with 2^pow <= num (num > 0 is asserted)
RECURSIVE Log2FloorFrom(_, _)
Log2FloorFrom(num, pow) ==
    IF Pow2(pow + 1) <= num THEN Log2FloorFrom(num, pow + 1) ELSE pow
Log2Floor(num) == Log2FloorFrom(num, 0)

\* cpu_fft::bitreverse(n, l): r collects the l low bits of n in reverse order
RECURSIVE BitReverseFrom(_, _, _)
BitReverseFrom(n, l, r) ==
    IF l = 0 THEN r ELSE BitReverseFrom(n \div 2, l - 1, 2 * r + (n % 2))
BitReverse(n, l) == BitReverseFrom(n, l, 0)

\* a.swap(i, j) on 0-based indices
Swap(s, i, j) == [s EXCEPT ![i + 1] = s[j + 1], ![j + 1] = s[i + 1]]

SwapGuardAlways(k, rk) == k # rk
SwapGuard(k, rk) == k < rk

\* the iterations first..last of the loop "for k in 0..n", in order
RECURSIVE BitReverseRange(_, _, _, _)
BitReverseRange(s, first, last, l) ==
    IF first > last THEN s
    ELSE IF first = last
         THEN LET rk == BitReverse(first, l)
              IN IF SwapGuard(first, rk) THEN Swap(s, rk, first) ELSE s
         ELSE LET mid == (first + last) \div 2
              IN CHOOSE r \in
                     { BitReverseRange(done, mid + 1, last, l) :
                       done \in {BitReverseRange(s, first, mid, l)} } :
                     TRUE

\* the loop "for k in 0..n": from index k on
BitReverseLoop(s, k, l) == BitReverseRange(s, k, Len(s) - 1, l)

\* twiddles[i] = omega^i for i in 0..n/2, by repeated multiplication
Twiddles(w, n) == Vec([i \in 1..(n \div 2) |-> FPow(w, i - 1)])

FlatTwiddleIndexNoStride(i, twiddle_chunk) == i + 1
FlatTwiddleIndex(i, twiddle_chunk) == (i + 1) * twiddle_chunk

\* the closure of a.chunks_mut(chunk).for_each on one chunk (coeffs): the pair
\* at position 0 uses no twiddle, the pair at position i + 1 uses
\* twiddles[(i + 1) * twiddle_chunk]
FlatButterflyChunk(coeffs, twiddle_chunk, tw) ==
    LET half == Len(coeffs) \div 2
        t(p) == IF p = 0 THEN coeffs[half + 1]
                ELSE FMul(coeffs[half + p + 1], tw[FlatTwiddleIndex(p - 1, twiddle_chunk) + 1])
    IN Vec([x \in 1..Len(coeffs) |->
               IF x <= half
               THEN FAdd(coeffs[x], t(x - 1))
               ELSE FSub(coeffs[x - half], t(x - half - 1))])

RECURSIVE Concat(_)
Concat(ss) == IF ss = <<>> THEN <<>> ELSE Head(ss) \o Concat(Tail(ss))

\* one round of the flat pass over the whole buffer
FlatRound(s, chunk, twiddle_chunk, tw) ==
    LET cs == Chunks(s, chunk)
    IN Concat([c \in 1..Len(cs) |-> FlatButterflyChunk(cs[c], twiddle_chunk, tw)])

\* the flat pass after r rounds: chunk = 2^r, twiddle_chunk = (n / 2) / 2^(r-1)
RECURSIVE FlatPass(_, _, _)
FlatPass(s, r, tw) ==
    IF r = 0 THEN s
    ELSE FlatRound(FlatPass(s, r - 1, tw), Pow2(r), (Len(s) \div 2) \div Pow2(r - 1), tw)

RecTwiddleIndexNoStride(i, twiddle_chunk) == i + 1
RecTwiddleIndex(i, twiddle_chunk) == (i + 1) * twiddle_chunk

\* the butterflies after rayon::join: left and right are the two halves as the
\* two recursive calls left them
ButterflyMerge(left, right, twiddle_chunk, tw) ==
    LET half == Len(left)
        t(p) == IF p = 0 THEN right[1]
                ELSE FMul(right[p + 1], tw[RecTwiddleIndex(p - 1, twiddle_chunk) + 1])
    IN Vec([x \in 1..(2 * half) |->
               IF x <= half
               THEN FAdd(left[x], t(x - 1))
               ELSE FSub(left[x - half], t(x - half - 1))])

\* recursive_butterfly_arithmetic(a, n, twiddle_chunk, twiddles), n >= 2, with
\* the two joined calls run one after the other
RECURSIVE RecursiveButterflyArithmetic(_, _, _, _)
RecursiveButterflyArithmetic(s, n, twiddle_chunk, tw) ==
    IF n = 2
    THEN <<FAdd(s[1], s[2]), FSub(s[1], s[2])>>
    ELSE LET half == n \div 2
         IN CHOOSE r \in
                { ButterflyMerge(left, right, twiddle_chunk, tw) :
                  left \in {RecursiveButterflyArithmetic(SplitAtMut(s, half)[1], half,
                                                          twiddle_chunk * 2, tw)},
                  right \in {RecursiveButterflyArithmetic(SplitAtMut(s, half)[2], half,
                                                           twiddle_chunk * 2, tw)} } :
                TRUE

\* The calls of recursive_butterfly_arithmetic that rayon::join may hand to
\* different workers, as <<start, n>>: the call on the whole buffer, on its
\* halves and on its quarters. A call on a quarter runs its own recursion on
\* one worker.
ForkFloor(n) == Max(2, n \div 4)
RecCalls(n) ==
    {c \in (0..(n - 1)) \X {n, n \div 2, n \div 4} :
        c[2] >= ForkFloor(n) /\ c[1] % c[2] = 0}
RecChildren(c) == {<<c[1], c[2] \div 2>>, <<c[1] + c[2] \div 2, c[2] \div 2>>}

\* the part of the buffer a call works on, and the buffer with that part replaced
CallSlice(s, c) == SubSeq(s, c[1] + 1, c[1] + c[2])
WithSlice(s, c, part) ==
    Vec([x \in 1..Len(s) |->
            IF x > c[1] /\ x <= c[1] + c[2] THEN part[x - c[1]] ELSE s[x]])

\* ------------------------------------------------------- calls of cpu_fft

LengthOkAtLeast(n, l) == n >= Pow2(l)
\* assert_eq!(n, 1 << log_n)
LengthOk(n, l) == n = Pow2(l)

\* the elements of multiplicative order exactly n
RootsOfOrder(n) ==
    {w \in Field \ {0} : /\ FPow(w, n) = 1
                         /\ \A d \in 1..(n - 1) : FPow(w, d) # 1}

\* the buffers of length n with at most MaxTerms non-zero elements
FftElems == {0, 3}
FftInputs(n) ==
    {s \in [1..n -> FftElems] : Cardinality({i \in 1..n : s[i] # 0}) <= MaxTerms}

\* thread counts at the thresholds of log2_floor: the powers of two up to n
\* and their predecessors; a call is tried with those of at least n / 2,
\* on both sides of "log_n <= log_threads"
FftThreads ==
    {Pow2(k) : k \in 0..MaxLogN} \cup {Pow2(k) - 1 : k \in 1..MaxLogN}

\* the lengths of a tried with log_n: 2^log_n, and beside it the lengths one
\* off and half
FftLens(l) == {Pow2(l), Pow2(l) - 1, Pow2(l) + 1, Pow2(l) \div 2}

FftInit ==
    /\ pc = "fft_call"
    /\ fft_entry \in {"cpu_fft", "best_fft", "gpu_fft"}
    /\ gpu \in BOOLEAN
    /\ fft_entry = "cpu_fft" => gpu = FALSE
    /\ fft_entry = "gpu_fft" => gpu = TRUE
    /\ device \in Devices
    /\ ~gpu => device = "ok"
    /\ logging \in BOOLEAN
    /\ sink \in Sinks
    /\ ~logging => sink = "ok"
    /\ faulty = {}
    /\ panicked = {}
    /\ ParIdle
    /\ PolyIdle
    /\ MsmIdle
    /\ DigitIdle
    /\ RecIdle
    /\ log_n \in 0..MaxLogN
    /\ num_threads \in {t \in FftThreads : 2 * t >= Pow2(log_n)}
    /\ (fft_entry # "cpu_fft" \/ logging) => log_n < MaxLogN
    /\ \E n \in FftLens(log_n) : a_buf \in FftInputs(n)
    /\ (fft_entry # "cpu_fft" \/ logging) => Len(a_buf) = Pow2(log_n)
    /\ omega \in RootsOfOrder(Pow2(log_n))
    /\ a_orig = a_buf
    /\ a_in = a_buf
    /\ a_rev = <<>>
    /\ twiddles = <<>>
    /\ round = 0
    /\ phase = "forward"
    /\ rec_done = {}

\* cpu_fft up to the butterfly pass: the length assertion, the bit-reversal
\* loop, the twiddle table and the choice of the pass
FftCpu == fft_entry = "cpu_fft" \/ (fft_entry = "best_fft" /\ ~gpu)
FftGpu == fft_entry = "gpu_fft" \/ (fft_entry = "best_fft" /\ gpu)

CpuFftEnter ==
    /\ pc = "fft_call"
    /\ FftCpu
    /\ IF ~LengthOk(Len(a_buf), log_n)
       THEN /\ pc' = "fft_panic"
            /\ UNCHANGED <<a_buf, a_rev, twiddles>>
       ELSE /\ a_buf' = BitReverseLoop(a_buf, 0, log_n)
            /\ a_rev' = a_buf'
            /\ twiddles' = Twiddles(omega, Len(a_buf))
            /\ pc' = IF log_n <= Log2Floor(num_threads) THEN "fft_flat" ELSE "fft_recursive"
    /\ a_in' = a_buf
    /\ round' = 0
    /\ rec_done' = {}
    /\ UNCHANGED <<msmVars, envVars, num_threads, parVars, polyVars, digitVars, recVars, omega, log_n, a_orig,
                   phase, fft_entry>>

\* one iteration of "for _ in 0..log_n" of the flat pass
CpuFftFlatRound ==
    /\ pc = "fft_flat"
    /\ round < log_n
    /\ a_buf' = FlatRound(a_buf, Pow2(round + 1),
                          (Len(a_buf) \div 2) \div Pow2(round), twiddles)
    /\ round' = round + 1
    /\ UNCHANGED <<msmVars, envVars, pc, num_threads, parVars, polyVars, digitVars, recVars, omega, log_n, twiddles,
                   a_in, a_rev, a_orig, phase, rec_done, fft_entry>>

\* a worker runs a call of recursive_butterfly_arithmetic that forks no
\* further: the whole recursion on its part of the buffer
RecursiveLeafCall ==
    /\ pc = "fft_recursive"
    /\ \E c \in RecCalls(Len(a_buf)) \ rec_done :
          /\ c[2] = ForkFloor(Len(a_buf))
          /\ a_buf' = WithSlice(a_buf, c,
                          RecursiveButterflyArithmetic(CallSlice(a_buf, c), c[2],
                                                       Len(a_buf) \div c[2], twiddles))
          /\ rec_done' = rec_done \cup {c}
    /\ UNCHANGED <<msmVars, envVars, pc, num_threads, parVars, polyVars, digitVars, recVars, omega, log_n,
                   twiddles, round, a_in, a_rev, a_orig, phase, fft_entry>>

\* a call that would do its butterflies without waiting for rayon::join
RecursiveJoinEarly ==
    /\ pc = "fft_recursive"
    /\ \E c \in RecCalls(Len(a_buf)) \ rec_done :
          /\ c[2] > ForkFloor(Len(a_buf))
          /\ a_buf' = WithSlice(a_buf, c,
                          ButterflyMerge(SplitAtMut(CallSlice(a_buf, c), c[2] \div 2)[1],
                                         SplitAtMut(CallSlice(a_buf, c), c[2] \div 2)[2],
                                         Len(a_buf) \div c[2], twiddles))
          /\ rec_done' = rec_done \cup {c}
    /\ UNCHANGED <<msmVars, envVars, pc, num_threads, parVars, polyVars, digitVars, recVars, omega, log_n,
                   twiddles, round, a_in, a_rev, a_orig, phase, fft_entry>>

\* a call whose two joined calls have returned does its butterflies and returns
RecursiveJoinCall ==
    /\ pc = "fft_recursive"
    /\ \E c \in RecCalls(Len(a_buf)) \ rec_done :
          /\ c[2] > ForkFloor(Len(a_buf))
          /\ RecChildren(c) \subseteq rec_done
          /\ a_buf' = WithSlice(a_buf, c,
                          ButterflyMerge(SplitAtMut(CallSlice(a_buf, c), c[2] \div 2)[1],
                                         SplitAtMut(CallSlice(a_buf, c), c[2] \div 2)[2],
                                         Len(a_buf) \div c[2], twiddles))
          /\ rec_done' = rec_done \cup {c}
    /\ UNCHANGED <<msmVars, envVars, pc, num_threads, parVars, polyVars, digitVars, recVars, omega, log_n,
                   twiddles, round, a_in, a_rev, a_orig, phase, fft_entry>>

CpuFftReturn ==
    /\ \/ pc = "fft_flat" /\ round = log_n
       \/ pc = "fft_recursive" /\ <<0, Len(a_buf)>> \in rec_done
    /\ pc' = IF LogStatsPanics THEN "fft_panic" ELSE "fft_done"
    /\ UNCHANGED <<msmVars, envVars, num_threads, parVars, polyVars, digitVars, recVars, fftVars>>

\* gpu_fft: FftKernel::create(&devices).expect(..), then
\* kern.radix_fft_many(&mut [a], &[omega], &[log_n]).expect(..), which leaves
\* in a what the external kernel computes, then log_fft_stats
GpuFftCall ==
    /\ pc = "fft_call"
    /\ FftGpu
    /\ IF device # "ok"
       THEN pc' = "fft_panic" /\ UNCHANGED a_buf
       ELSE /\ a_buf' \in FftInputs(Len(a_buf))
            /\ pc' = IF LogStatsPanics THEN "fft_panic" ELSE "gpu_fft_done"
    /\ a_in' = a_buf
    /\ UNCHANGED <<msmVars, envVars, num_threads, parVars, polyVars, digitVars, recVars, omega, log_n,
                   twiddles, round, a_rev, a_orig, phase, rec_done, fft_entry>>

\* the caller inverts: the same transform with omega^-1 ...
CallInverseFft ==
    /\ pc = "fft_done"
    /\ phase = "forward"
    /\ phase' = "inverse"
    /\ omega' = FInv(omega)
    /\ pc' = "fft_call"
    /\ UNCHANGED <<msmVars, envVars, num_threads, parVars, polyVars, digitVars, recVars, a_buf, log_n, twiddles, round,
                   a_in, a_rev, a_orig, rec_done, fft_entry>>

\* ... and every element multiplied by n^-1
ScaleByNInv ==
    /\ pc = "fft_done"
    /\ phase = "inverse"
    /\ phase' = "scaled"
    /\ a_buf' = Vec([i \in 1..Len(a_buf) |-> FMul(a_buf[i], FInv(Len(a_buf) % P))])
    /\ pc' = "fft_scaled"
    /\ UNCHANGED <<msmVars, envVars, num_threads, parVars, polyVars, digitVars, recVars, omega, log_n, twiddles, round,
                   a_in, a_rev, a_orig, rec_done, fft_entry>>

FftNext ==
    \/ CpuFftEnter
    \/ CpuFftFlatRound
    \/ RecursiveLeafCall
    \/ RecursiveJoinCall
    \/ CpuFftReturn
    \/ GpuFftCall
    \/ CallInverseFft
    \/ ScaleByNInv

SpecFft == FftInit /\ [][FftNext]_vars

\* the evaluations of the polynomial with coefficients s at w^0 .. w^(n-1)
Dft(s, w) == Vec([i \in 1..Len(s) |-> Evaluate(s, FPow(w, i - 1))])

IsPrimitiveRoot(w, n) == w \in RootsOfOrder(n)

\* C4: after cpu_fft(a, omega, log_n) with len(a) = n = 2^log_n and omega of
\* order n, a[i] is the sum over j of a0[j] * omega^(i*j) for every i, a0
\* being the buffer as passed in.
C4_FftIsDft ==
    (/\ pc = "fft_done"
     /\ Len(a_in) = Pow2(log_n)
     /\ IsPrimitiveRoot(omega, Len(a_in)))
    => a_buf = Dft(a_in, omega)

\* C4 witness: a finished transform of the polynomial 3x^6 at the powers of
\* the 8th root of unity 2.
C4_Witness ==
    /\ pc = "fft_done"
    /\ phase = "forward"
    /\ log_n = 3
    /\ a_in = <<0, 0, 0, 0, 0, 0, 3, 0>>
    /\ omega = 2
    /\ a_buf[1] = 3
    /\ a_buf[2] = FMul(3, FPow(2, 6))
    /\ a_buf[4] = FMul(3, FPow(2, 18))

\* C5: the FFT with omega, then the FFT with omega^-1, then every element
\* multiplied by n^-1, gives back exactly the original a.
C5_RoundTrip ==
    phase = "scaled" => a_buf = a_orig

\* C5 witness: a finished round trip of an eight-element buffer whose
\* transform differs from it.
C5_Witness ==
    /\ phase = "scaled"
    /\ pc = "fft_scaled"
    /\ log_n = 3
    /\ a_orig = <<0, 0, 0, 0, 0, 3, 0, 0>>
    /\ a_in # a_orig

\* C12: cpu_fft called with len(a) # 2^log_n panics, and every element of a is
\* as passed in: no bit-reversal swap, twiddle or butterfly step was applied.
C12_LengthMismatchPanics ==
    (FftCpu /\ Len(a_buf) # Pow2(log_n) /\ pc # "fft_call")
    => /\ pc = "fft_panic"
       /\ a_buf = a_orig
       /\ a_rev = <<>>
       /\ twiddles = <<>>
       /\ round = 0

\* C12 witness: a panicked call with log_n = 2 on a three-element buffer that a
\* bit-reversal swap would have changed.
C12_Witness ==
    /\ pc = "fft_panic"
    /\ log_n = 2
    /\ a_buf = <<0, 3, 0>>
    /\ a_orig = <<0, 3, 0>>

\* C6: for the same (a, omega, log_n) with log_n >= 1 the flat iterative pass
\* and recursive_butterfly_arithmetic(a, n, 1, twiddles) leave a in the same
\* final state: whichever pass the call took, a is what either pass makes of
\* the bit-reversed buffer.
C6_FlatEqualsRecursive ==
    (pc = "fft_done" /\ log_n >= 1)
    => /\ a_buf = FlatPass(a_rev, log_n, twiddles)
       /\ a_buf = RecursiveButterflyArithmetic(a_rev, Len(a_rev), 1, twiddles)

\* C6 witness: a finished call of size eight through the flat pass (three
\* rounds on eight threads) whose twiddled pairs are not zero.
C6_Witness ==
    /\ pc = "fft_done"
    /\ log_n = 3
    /\ a_in = <<0, 0, 0, 0, 0, 0, 0, 3>>
    /\ num_threads = 8
    /\ round = 3

\* --------------------------------------------------------- group arithmetic

\* The curve group (CurveAffine / C::Curve): the integers modulo the prime Q
\* under addition; 0 is the identity.
Q == 13
Group == 0..(Q - 1)

GAdd(x, y) == (x + y) % Q
GDouble(x) == (x + x) % Q

\* "for _ in 0..c { *acc = acc.double(); }"
RECURSIVE GDoubleTimes(_, _)
GDoubleTimes(x, c) == IF c = 0 THEN x ELSE GDoubleTimes(GDouble(x), c - 1)

\* results.iter().fold(C::Curve::identity(), |a, b| a + b)
RECURSIVE GSum(_)
GSum(s) == IF s = <<>> THEN 0 ELSE GAdd(GSum(SubSeq(s, 1, Len(s) - 1)), s[Len(s)])

\* ------------------------------------------------------------ scalar bytes

\* F::Repr: 32 bytes, little-endian
ReprBytes == 32
\* multiexp_serial: segments = (256 / c) + 1
ScalarBits == 256
\* the bytes of one u64
U64Bytes == 8

\* bit b of a byte
ByteBit(byte, b) == (byte \div Pow2(b)) % 2

\* bit t of the 256-bit scalar held in bytes
ScalarBit(bytes, t) == ByteBit(bytes[(t \div 8) + 1], t % 8)

\* ---------------------------------------------------------- multiexp_serial

\* (f64::from(n as u32)).ln().ceil() for 21 <= n <= 403:
\* e^3 < 21, e^4 = 54.598.., e^5 = 148.41.., e^6 = 403.42..
CeilLn(n) == IF n <= 54 THEN 4 ELSE IF n <= 148 THEN 5 ELSE 6

\* the window width c, from bases.len()
WindowWidth(len) == IF len < 4 THEN 1 ELSE IF len < 32 THEN 3 ELSE CeilLn(len)

\* one segment fewer: the bits above c * floor(256 / c) are left out
SegmentsFloor(c) == ScalarBits \div c
\* let segments = (256 / c) + 1;
Segments(c) == (ScalarBits \div c) + 1

GetAtShiftNone(skip_bits, skip_bytes) == 0
GetAtShift(skip_bits, skip_bytes) == skip_bits - (skip_bytes * 8)

\* multiexp_serial::get_at(segment, c, bytes): the 8 bytes from skip_bytes on
\* (zero where the representation has ended) as a little-endian u64, shifted
\* right by the bits skipped inside the first byte, modulo 2^c
GetAt(segment, c, bytes) ==
    LET skip_bits == segment * c
        skip_bytes == skip_bits \div 8
        vbyte(i) == IF skip_bytes + i < Len(bytes) THEN bytes[skip_bytes + i + 1] ELSE 0
        tmpbit(j) == IF j < 8 * U64Bytes THEN ByteBit(vbyte(j \div 8), j % 8) ELSE 0
        shift == GetAtShift(skip_bits, skip_bytes)
        low[k \in 0..c] ==
            IF k = 0 THEN 0 ELSE low[k - 1] + tmpbit(k - 1 + shift) * Pow2(k - 1)
    IN IF skip_bytes >= ReprBytes THEN 0 ELSE low[c]

\* Bucket::add_assign(&mut self, other)
BucketAddAssign(b, other) ==
    CASE b.kind = "None" -> [kind |-> "Affine", pt |-> other]
      [] b.kind = "Affine" -> [kind |-> "Projective", pt |-> GAdd(b.pt, other)]
      [] b.kind = "Projective" -> [kind |-> "Projective", pt |-> GAdd(b.pt, other)]

\* Bucket::add(self, other)
BucketAdd(b, other) ==
    CASE b.kind = "None" -> other
      [] b.kind = "Affine" -> GAdd(other, b.pt)
      [] b.kind = "Projective" -> GAdd(other, b.pt)

\* vec![Bucket::None; (1 << c) - 1]
EmptyBuckets(c) == [d \in 1..(Pow2(c) - 1) |-> [kind |-> "None", pt |-> 0]]

\* "for (coeff, base) in coeffs.iter().zip(bases.iter())", pairs first..last
\* in order: a non-zero digit d adds the base to buckets[d - 1]
RECURSIVE FillBuckets(_, _, _, _, _, _, _)
FillBuckets(coeffs, bases, segment, c, first, last, buckets) ==
    IF first > last THEN buckets
    ELSE IF first = last
         THEN LET coeff == GetAt(segment, c, coeffs[first])
              IN IF coeff # 0
                 THEN [buckets EXCEPT ![coeff] = BucketAddAssign(@, bases[first])]
                 ELSE buckets
         ELSE LET mid == (first + last) \div 2
              IN CHOOSE r \in
                     { FillBuckets(coeffs, bases, segment, c, mid + 1, last, done) :
                       done \in {FillBuckets(coeffs, bases, segment, c, first, mid,
                                              buckets)} } :
                     TRUE

\* summation by parts, "for exp in buckets.into_iter().rev()", buckets hi
\* down to lo in that order; st is <<running_sum, acc>>
RECURSIVE SumByParts(_, _, _, _)
SumByParts(buckets, hi, lo, st) ==
    IF hi < lo THEN st
    ELSE IF hi = lo
         THEN LET rs == BucketAdd(buckets[hi], st[1])
              IN <<rs, GAdd(st[2], rs)>>
         ELSE LET mid == (hi + lo) \div 2
              IN CHOOSE r \in
                     { SumByParts(buckets, mid, lo, done) :
                       done \in {SumByParts(buckets, hi, mid + 1, st)} } :
                     TRUE

\* one iteration of "for current_segment in (0..segments).rev()": c doublings,
\* the buckets of this segment, and their summation by parts
SegmentStep(coeffs, bases, c, current_segment, acc) ==
    LET buckets == FillBuckets(coeffs, bases, current_segment, c, 1,
                               Min(Len(coeffs), Len(bases)), EmptyBuckets(c))
    IN SumByParts(buckets, Len(buckets), 1, <<0, GDoubleTimes(acc, c)>>)[2]

\* iterations first..last of "for current_segment in (0..segments).rev()";
\* iteration k handles segment segments - 1 - k
RECURSIVE SerialSegments(_, _, _, _, _, _)
SerialSegments(coeffs, bases, c, first, last, acc) ==
    IF first > last THEN acc
    ELSE IF first = last
         THEN SegmentStep(coeffs, bases, c, Segments(c) - 1 - first, acc)
         ELSE LET mid == (first + last) \div 2
              IN CHOOSE r \in
                     { SerialSegments(coeffs, bases, c, mid + 1, last, done) :
                       done \in {SerialSegments(coeffs, bases, c, first, mid, acc)} } :
                     TRUE

\* multiexp_serial(coeffs, bases, &mut acc): the new value of acc
MultiexpSerial(coeffs, bases, acc) ==
    LET c == WindowWidth(Len(bases))
    IN SerialSegments(coeffs, bases, c, 0, Segments(c) - 1, acc)

\* ----------------------------------------------------------- small_multiexp

\* "for coeff_idx in 0..coeffs.len()" at one bit position, coefficients
\* first..last in order
RECURSIVE SmallAddBases(_, _, _, _, _, _)
SmallAddBases(coeffs, bases, t, first, last, acc) ==
    IF first > last THEN acc
    ELSE IF first = last
         THEN IF ScalarBit(coeffs[first], t) # 0 THEN GAdd(acc, bases[first]) ELSE acc
         ELSE LET mid == (first + last) \div 2
              IN CHOOSE r \in
                     { SmallAddBases(coeffs, bases, t, mid + 1, last, done) :
                       done \in {SmallAddBases(coeffs, bases, t, first, mid, acc)} } :
                     TRUE

\* iterations first..last of the loops over byte_idx and bit_idx, most
\* significant bit first: iteration k handles byte_idx = 31 - k / 8 and
\* bit_idx = 7 - k % 8, doubling acc and then adding the selected bases
RECURSIVE SmallBits(_, _, _, _, _)
SmallBits(coeffs, bases, first, last, acc) ==
    IF first > last THEN acc
    ELSE IF first = last
         THEN SmallAddBases(coeffs, bases, 8 * ReprBytes - 1 - first, 1, Len(coeffs),
                            GDouble(acc))
         ELSE LET mid == (first + last) \div 2
              IN CHOOSE r \in
                     { SmallBits(coeffs, bases, mid + 1, last, done) :
                       done \in {SmallBits(coeffs, bases, first, mid, acc)} } :
                     TRUE

\* bases[coeff_idx] is out of bounds when a set bit of a coefficient meets it
SmallMultiexpPanics(coeffs, bases) ==
    \E coeff_idx \in 1..Len(coeffs) :
        /\ coeff_idx > Len(bases)
        /\ \E t \in 0..(8 * ReprBytes - 1) : ScalarBit(coeffs[coeff_idx], t) # 0

SmallMultiexp(coeffs, bases) == SmallBits(coeffs, bases, 0, 8 * ReprBytes - 1, 0)

\* --------------------------------------------------------- multiexp inputs

\* the largest of the small input lengths
MaxMsmLen == 5
\* the lengths at and above the window-width threshold "bases.len() < 32"
BigLens == {32, 33}

Zeros32 == [i \in 1..ReprBytes |-> 0]

\* scalars as F::Repr bytes, each below the scalar modulus (top byte <= 0x2F)
ScalarPool ==
    << Zeros32,
       [Zeros32 EXCEPT ![1] = 1],
       [Zeros32 EXCEPT ![1] = 197, ![2] = 154],
       [Zeros32 EXCEPT ![32] = 43, ![31] = 109, ![9] = 128],
       [i \in 1..ReprBytes |-> IF i = 32 THEN 31 ELSE IF i = 17 THEN 253 ELSE 255] >>

\* coefficient vector of length n: pool entries from cs on in steps of cd
CoeffVec(n, cs, cd) ==
    Vec([i \in 1..n |-> ScalarPool[((cs + (i - 1) * cd) % Len(ScalarPool)) + 1]])

\* base vector of length n: group elements from bs on in steps of bd
BaseVec(n, bs, bd) == Vec([i \in 1..n |-> (bs + (i - 1) * bd) % Q])

\* <<cs, cd, bs, bd>>: where the coefficient and base vectors start and step
InputSeeds == {<<1, 1, 1, 1>>, <<3, 2, 5, 3>>}

\* 256^k modulo the group order
RECURSIVE Pow256ModQ(_)
Pow256ModQ(k) ==
    IF k = 0 THEN 1
    ELSE IF k % 2 = 0
         THEN (Pow256ModQ(k \div 2) * Pow256ModQ(k \div 2)) % Q
         ELSE (256 * Pow256ModQ(k - 1)) % Q

\* the number held in bytes lo..hi (little-endian), modulo the group order
RECURSIVE BytesModQ(_, _, _)
BytesModQ(bytes, lo, hi) ==
    IF lo > hi THEN 0
    ELSE IF lo = hi THEN bytes[lo] % Q
    ELSE LET mid == (lo + hi) \div 2
         IN (BytesModQ(bytes, lo, mid)
                + BytesModQ(bytes, mid + 1, hi) * Pow256ModQ(mid - lo + 1)) % Q

\* the scalar held in the top i bytes, modulo the group order
ScalarModQ(bytes, i) == BytesModQ(bytes, Len(bytes) - i + 1, Len(bytes))

\* sum of coeffs[k] * bases[k] over k in lo..hi
RECURSIVE ProductsRange(_, _, _, _)
ProductsRange(coeffs, bases, lo, hi) ==
    IF lo > hi THEN 0
    ELSE IF lo = hi THEN (ScalarModQ(coeffs[lo], ReprBytes) * bases[lo]) % Q
    ELSE LET mid == (lo + hi) \div 2
         IN GAdd(ProductsRange(coeffs, bases, lo, mid),
                 ProductsRange(coeffs, bases, mid + 1, hi))

\* sum of coeffs[k] * bases[k] over the first i pairs
SumOfProducts(coeffs, bases, i) == ProductsRange(coeffs, bases, 1, i)

\* ------------------------------------------------------------ multiexp calls

MsmInit ==
    /\ pc = "msm_call"
    /\ num_threads \in 1..MaxThreads
    /\ entry \in {"multiexp_cpu", "best_multiexp", "multiexp_gpu", "small_multiexp"}
    /\ gpu \in BOOLEAN
    /\ entry \in {"multiexp_cpu", "small_multiexp"} => gpu = FALSE
    /\ entry = "multiexp_gpu" => gpu = TRUE
    /\ device \in Devices
    /\ ~gpu => device = "ok"
    /\ logging \in BOOLEAN
    /\ sink \in Sinks
    /\ ~logging => sink = "ok"
    /\ entry = "small_multiexp" => ~logging
    /\ (gpu \/ logging \/ entry = "small_multiexp") => num_threads = 1
    /\ faulty \in FaultySets
    /\ faulty # {} => (entry = "multiexp_cpu" /\ ~logging)
    /\ panicked = {}
    /\ \E n \in 0..MaxMsmLen \cup BigLens, m \in 0..MaxMsmLen \cup BigLens,
          seed \in InputSeeds :
        /\ n # m => (n <= MaxMsmLen /\ m <= MaxMsmLen)
        /\ (logging \/ gpu \/ entry # "multiexp_cpu") => n <= MaxMsmLen
        /\ faulty # {} => (n = m /\ n <= MaxMsmLen /\ seed = <<1, 1, 1, 1>>)
        /\ arg_coeffs = CoeffVec(n, seed[1], seed[2])
        /\ arg_bases = BaseVec(m, seed[3], seed[4])
    /\ results = <<>>
    /\ msm_ran = {}
    /\ result = 0
    /\ work = 0
    /\ ParIdle /\ PolyIdle /\ FftIdle /\ DigitIdle /\ RecIdle

MsmCpu == entry = "multiexp_cpu" \/ (entry = "best_multiexp" /\ ~gpu)

\* one chunk for every thread
NumChunksThreads(coeffs, threads) == Min(Len(coeffs), threads)
\* let chunk = coeffs.len() / num_threads;
\* let num_chunks = coeffs.chunks(chunk).len();
NumChunks(coeffs, threads) == Len(Chunks(coeffs, Len(coeffs) \div threads))

\* multiexp_cpu up to the spawning of the workers: assert_eq!, then
\* "if coeffs.len() > num_threads" with results = vec![identity; num_chunks]
MultiexpCpuEnter ==
    /\ pc = "msm_call"
    /\ MsmCpu
    /\ IF Len(arg_coeffs) # Len(arg_bases)
       THEN pc' = "msm_panic" /\ UNCHANGED results
       ELSE IF Len(arg_coeffs) > num_threads
            THEN /\ results' = [k \in 1..NumChunks(arg_coeffs, num_threads) |-> 0]
                 /\ pc' = "msm_scope"
            ELSE pc' = "msm_serial" /\ UNCHANGED results
    /\ UNCHANGED <<num_threads, envVars, entry, arg_coeffs, arg_bases, msm_ran, result,
                   work, parVars, polyVars, digitVars, recVars, fftVars>>

\* one spawned closure: multiexp_serial(coeffs, bases, acc) on the k-th chunks;
\* a faulty closure panics and leaves its slot as it was
MultiexpWorker ==
    /\ pc = "msm_scope"
    /\ \E k \in 1..Len(results) :
        /\ k \notin msm_ran
        /\ IF k \in faulty
           THEN /\ panicked' = panicked \cup {k}
                /\ UNCHANGED results
           ELSE /\ LET chunk == Len(arg_coeffs) \div num_threads
                   IN results' = [results EXCEPT ![k] =
                          MultiexpSerial(Chunks(arg_coeffs, chunk)[k],
                                         Chunks(arg_bases, chunk)[k], @)]
                /\ UNCHANGED panicked
        /\ msm_ran' = msm_ran \cup {k}
    /\ work' = work + 1
    /\ UNCHANGED <<pc, num_threads, gpu, device, logging, sink, faulty, entry,
                   arg_coeffs, arg_bases, result, parVars, polyVars, digitVars, recVars, fftVars>>

\* the scope has joined every worker: a panic of a worker goes on into the
\* caller; otherwise the partial results are folded and the call is logged
MultiexpJoin ==
    /\ pc = "msm_scope"
    /\ msm_ran = 1..Len(results)
    /\ IF ScopePanics(panicked)
       THEN pc' = "msm_panic" /\ UNCHANGED result
       ELSE /\ result' = GSum(results)
            /\ pc' = IF LogStatsPanics THEN "msm_panic" ELSE "msm_done"
    /\ UNCHANGED <<num_threads, envVars, entry, arg_coeffs, arg_bases, results, msm_ran,
                   work, parVars, polyVars, digitVars, recVars, fftVars>>

\* the else branch: one multiexp_serial over the whole input
MultiexpSerialPath ==
    /\ pc = "msm_serial"
    /\ result' = MultiexpSerial(arg_coeffs, arg_bases, 0)
    /\ work' = work + 1
    /\ pc' = IF LogStatsPanics THEN "msm_panic" ELSE "msm_done"
    /\ UNCHANGED <<num_threads, envVars, entry, arg_coeffs, arg_bases, results, msm_ran,
                   parVars, polyVars, digitVars, recVars, fftVars>>

MsmGpu == entry = "multiexp_gpu" \/ (entry = "best_multiexp" /\ gpu)

\* multiexp_gpu up to the kernel: Device::all() and
\* MultiexpKernel::create(&devices).expect("Cannot initialize kernel!").
\* Without a device either create fails or the kernel it returns cannot run.
MultiexpGpuCreate ==
    /\ pc = "msm_call"
    /\ MsmGpu
    /\ \/ device \in {"no_device", "kernel_init_fails"} /\ pc' = "msm_panic"
       \/ device \in {"ok", "call_fails", "no_device"} /\ pc' = "gpu_kernel"
    /\ UNCHANGED <<num_threads, envVars, msmVars, parVars, polyVars, digitVars, recVars, fftVars>>

\* kern.multiexp(&pool, bss, t, skip): the external kernel returns Err when the
\* accelerator fails and otherwise Ok with a value of its own making; what it
\* does with vectors of different lengths is its own choice
MultiexpGpuCall ==
    /\ pc = "gpu_kernel"
    /\ work' = work + 1
    /\ \/ /\ device # "ok" \/ Len(arg_coeffs) # Len(arg_bases)
          /\ pc' = "gpu_err"
          /\ UNCHANGED result
       \/ /\ device = "ok"
          /\ \E r \in Group : result' = r
          /\ pc' = "gpu_ok"
       \/ /\ Len(arg_coeffs) # Len(arg_bases)
          /\ pc' = "msm_panic"
          /\ UNCHANGED result
    /\ UNCHANGED <<num_threads, envVars, entry, arg_coeffs, arg_bases, results, msm_ran,
                   parVars, polyVars, digitVars, recVars, fftVars>>

\* the rest of multiexp_gpu (log_msm_stats, then gpu_result is returned) and,
\* from best_multiexp, the unwrap() of that result
MultiexpGpuReturn ==
    /\ pc \in {"gpu_ok", "gpu_err"}
    /\ pc' = IF LogStatsPanics THEN "msm_panic"
             ELSE IF pc = "gpu_ok" THEN "msm_done"
             ELSE IF entry = "best_multiexp" THEN "msm_panic"
             ELSE "msm_err"
    /\ UNCHANGED <<num_threads, envVars, msmVars, parVars, polyVars, digitVars, recVars, fftVars>>

\* small_multiexp(coeffs, bases)
SmallMultiexpCall ==
    /\ pc = "msm_call"
    /\ entry = "small_multiexp"
    /\ IF SmallMultiexpPanics(arg_coeffs, arg_bases)
       THEN pc' = "msm_panic" /\ UNCHANGED result
       ELSE result' = SmallMultiexp(arg_coeffs, arg_bases) /\ pc' = "msm_done"
    /\ work' = work + 1
    /\ UNCHANGED <<num_threads, envVars, entry, arg_coeffs, arg_bases, results, msm_ran,
                   parVars, polyVars, digitVars, recVars, fftVars>>

MsmNext ==
    \/ MultiexpCpuEnter
    \/ MultiexpWorker
    \/ MultiexpJoin
    \/ MultiexpSerialPath
    \/ MultiexpGpuCreate
    \/ MultiexpGpuCall
    \/ MultiexpGpuReturn
    \/ SmallMultiexpCall

SpecMsm == MsmInit /\ [][MsmNext]_vars

\* C3: whenever multiexp_cpu returns (its inputs then have equal lengths, for
\* every input length and every worker-thread count), its result equals
\* small_multiexp(coeffs, bases) and the sum of coeffs[i] * bases[i]; the
\* value does not depend on the number of threads.
C3_CpuEqualsReference ==
    (pc = "msm_done" /\ MsmCpu) =>
        /\ Len(arg_coeffs) = Len(arg_bases)
        /\ result = SmallMultiexp(arg_coeffs, arg_bases)
        /\ result = SumOfProducts(arg_coeffs, arg_bases, Len(arg_coeffs))

\* a 33-element input split over 4 threads into 5 chunks, all joined
C3_Witness ==
    /\ pc = "msm_done"
    /\ entry = "multiexp_cpu"
    /\ Len(arg_coeffs) = 33
    /\ num_threads = 4
    /\ Len(results) = 5
    /\ msm_ran = 1..5
    /\ result # 0
    /\ result = SmallMultiexp(arg_coeffs, arg_bases)

\* C10: best_multiexp or multiexp_cpu called with len(coeffs) # len(bases)
\* panics, and no window or chunk of the multi-exponentiation has been
\* computed or dispatched by then: the call never returns, and no reduction
\* is ever started.
C10_MismatchPanicsFirst ==
    (/\ entry \in {"multiexp_cpu", "best_multiexp"}
     /\ Len(arg_coeffs) # Len(arg_bases))
    => /\ work = 0
       /\ pc \notin {"msm_done", "msm_err"}

\* C11: small_multiexp called with len(coeffs) # len(bases), in either
\* direction, fails: it never returns a value.
C11_SmallMismatchFails ==
    (/\ entry = "small_multiexp"
     /\ Len(arg_coeffs) # Len(arg_bases)
     /\ pc # "msm_call") => pc = "msm_panic"

\* C14: on the accelerator path, when no device is available, the kernel
\* fails to initialise or the accelerator call fails, multiexp_gpu and
\* best_multiexp never panic and never return a value: the call ends by
\* returning an error. (Equal lengths and a working log file, so that the
\* accelerator is the only failure.)
C14_AcceleratorErrorsReturned ==
    (/\ MsmGpu
     /\ device # "ok"
     /\ Len(arg_coeffs) = Len(arg_bases)
     /\ ~LogStatsPanics)
    => pc \notin {"msm_panic", "msm_done"}

\* C17: with telemetry enabled and a log file that cannot be opened or
\* written, a call of multiexp_cpu or multiexp_gpu whose inputs, workers and
\* accelerator are sound does not fail: it never ends in a panic.
C17_SinkFailureHarmless ==
    (/\ logging /\ sink # "ok"
     /\ entry \in {"multiexp_cpu", "multiexp_gpu"}
     /\ Len(arg_coeffs) = Len(arg_bases)
     /\ device = "ok" /\ faulty = {})
        => pc # "msm_panic"

\* C19 as claimed: on its parallel path multiexp_cpu divides the input into
\* exactly min(n, T) chunks.
C19_ExactlyMinChunks ==
    (pc \in {"msm_scope", "msm_done"} /\ MsmCpu /\ Len(arg_coeffs) > num_threads) =>
        Len(results) = Min(Len(arg_coeffs), num_threads)

\* C19 amended: on its parallel path (n > T) multiexp_cpu divides the input
\* into ceil(n / floor(n / T)) chunks of floor(n / T) terms, the last one
\* possibly shorter; that is at least T and at most n chunks. Each chunk is
\* reduced into its own partial accumulator, and the value returned is the
\* sum of the partial accumulators.
C19_ChunksOfQuotientSize ==
    (pc \in {"msm_scope", "msm_done"} /\ MsmCpu /\ Len(arg_coeffs) > num_threads) =>
        LET n == Len(arg_coeffs)
            chunk == n \div num_threads
            num == (n + chunk - 1) \div chunk
            partial == [k \in 1..num |->
                           LET cs == Vec(SubSeq(arg_coeffs, (k - 1) * chunk + 1,
                                                Min(k * chunk, n)))
                               bs == Vec(SubSeq(arg_bases, (k - 1) * chunk + 1,
                                                Min(k * chunk, n)))
                           IN SumOfProducts(cs, bs, Len(cs))]
        IN /\ Len(results) = num
           /\ num >= num_threads /\ num <= n
           /\ \A k \in msm_ran \ panicked : results[k] = partial[k]
           /\ pc = "msm_done" =>
                 /\ msm_ran = 1..num
                 /\ result = GSum(Vec(partial))

\* C19 witness: 5 terms on 3 threads were split into 5 chunks of one term,
\* all reduced and summed.
C19_Witness ==
    /\ pc = "msm_done"
    /\ MsmCpu
    /\ Len(arg_coeffs) = 5
    /\ num_threads = 3
    /\ Len(results) = 5
    /\ msm_ran = 1..5
    /\ result # 0

\* ------------------------------------------- closures that panic in a scope

\* the calls that spawn closures into a scope: parallelize and multiexp_cpu
ScopeInit ==
    \/ ParInit
    \/ MsmInit /\ entry = "multiexp_cpu" /\ ~logging /\ Len(arg_coeffs) <= MaxMsmLen

ScopeNext ==
    \/ ParallelizeSpawn
    \/ ParallelizeWorker
    \/ ParallelizeReturn
    \/ MultiexpCpuEnter
    \/ MultiexpWorker
    \/ MultiexpJoin
    \/ MultiexpSerialPath

SpecScope == ScopeInit /\ [][ScopeNext]_vars

\* C15: if f panics in a chunk invocation inside parallelize, or a worker
\* panics inside multiexp_cpu's parallel section, the call never returns
\* normally: a call that returned had no panicking closure among those it
\* spawned, and once a closure has panicked the call is still in its scope
\* or has failed.
C15_WorkerPanicPropagates ==
    /\ pc = "par_done" => faulty \cap (1..Len(tasks)) = {}
    /\ pc = "msm_done" => faulty \cap (1..Len(results)) = {}
    /\ panicked # {} => pc \in {"par_scope", "par_panic", "msm_scope", "msm_panic"}

\* C15 witness: parallelize over 5 elements on 3 threads has failed after all
\* three closures ran, the second of them panicking.
C15_Witness ==
    /\ pc = "par_panic"
    /\ Len(v) = 5
    /\ num_threads = 3
    /\ ran = {1, 2, 3}
    /\ panicked = {2}
    /\ visits[0] = 1
    /\ visits[4] = 1

\* --------------------------------------- the order in which workers finish

\* the calls that hand work to several workers and join them: multiexp_cpu,
\* and cpu_fft called directly or through best_fft
OrderInit ==
    \/ /\ MsmInit
       /\ entry = "multiexp_cpu" /\ ~logging /\ faulty = {}
       /\ Len(arg_coeffs) <= MaxMsmLen
    \/ FftInit /\ FftCpu /\ ~logging

OrderNext ==
    \/ MultiexpCpuEnter
    \/ MultiexpWorker
    \/ MultiexpJoin
    \/ MultiexpSerialPath
    \/ CpuFftEnter
    \/ CpuFftFlatRound
    \/ RecursiveLeafCall
    \/ RecursiveJoinCall
    \/ CpuFftReturn
    \/ CallInverseFft
    \/ ScaleByNInv

SpecOrder == OrderInit /\ [][OrderNext]_vars

\* what one worker of multiexp_cpu leaves in its slot when it runs alone
SequentialSlot(k) ==
    LET chunk == Len(arg_coeffs) \div num_threads
    IN MultiexpSerial(Chunks(arg_coeffs, chunk)[k], Chunks(arg_bases, chunk)[k], 0)

\* what a call of recursive_butterfly_arithmetic leaves in its part of the
\* buffer when its joined calls run one after the other
SequentialSlice(c) ==
    RecursiveButterflyArithmetic(CallSlice(a_rev, c), c[2], Len(a_rev) \div c[2], twiddles)

\* C16: in every interleaving and completion order of the workers of one call
\* of multiexp_cpu or of cpu_fft's recursive path (best_fft without the
\* accelerator is that call), the state depends only on which workers have
\* finished: a finished worker's slot or part of the buffer holds what it
\* computes alone, every other slot or part is untouched, a call has merged
\* only after both calls it joined returned, and the value returned / the
\* final buffer is the one of the sequential run.
C16_OrderIndependent ==
    /\ (pc \in {"msm_scope", "msm_done"} /\ Len(arg_coeffs) > num_threads) =>
          /\ \A k \in 1..Len(results) :
                results[k] = IF k \in msm_ran THEN SequentialSlot(k) ELSE 0
          /\ pc = "msm_done" =>
                /\ msm_ran = 1..Len(results)
                /\ result = GSum([k \in 1..Len(results) |-> SequentialSlot(k)])
    /\ pc = "fft_recursive" =>
          \A c \in RecCalls(Len(a_buf)) :
             /\ (c \in rec_done /\ c[2] > ForkFloor(Len(a_buf))) =>
                    RecChildren(c) \subseteq rec_done
             /\ (c \in rec_done /\ \A q \in rec_done : c \notin RecChildren(q)) =>
                    CallSlice(a_buf, c) = SequentialSlice(c)
             /\ (c \notin rec_done /\ c[2] = ForkFloor(Len(a_buf))) =>
                    CallSlice(a_buf, c) = CallSlice(a_rev, c)
    /\ (pc = "fft_done" /\ log_n > Log2Floor(num_threads)) =>
          /\ rec_done = RecCalls(Len(a_buf))
          /\ a_buf = SequentialSlice(<<0, Len(a_buf)>>)

\* C16 witness: an 8-element transform whose right half is finished and
\* merged while the first quarter has not started and the second has run.
C16_Witness ==
    /\ pc = "fft_recursive"
    /\ log_n = 3
    /\ rec_done = {<<2, 2>>, <<4, 2>>, <<6, 2>>, <<4, 4>>}
    /\ CallSlice(a_buf, <<4, 4>>) # CallSlice(a_rev, <<4, 4>>)

\* ------------------------------------------ the digits of one coefficient

\* values of bases.len() that give each window width of WindowWidth
DigitLens == {1, 4, 32, 55, 149}

\* 32-byte representations, among them ones with the top bits set as a field
\* with a 256-bit modulus has them
DigitScalars ==
    Range(ScalarPool) \cup
        { [i \in 1..ReprBytes |-> 255],
          [i \in 1..ReprBytes |-> IF i % 2 = 0 THEN 170 ELSE 85],
          [Zeros32 EXCEPT ![32] = 128],
          [Zeros32 EXCEPT ![8] = 255, ![9] = 1] }

\* multiexp_serial has chosen c and segments for one coefficient
DigitInit ==
    /\ pc = "segments"
    /\ num_threads = 1
    /\ EnvIdle /\ ParIdle /\ PolyIdle /\ FftIdle /\ MsmIdle /\ RecIdle
    /\ \E len \in DigitLens : c_width = WindowWidth(len)
    /\ repr \in DigitScalars
    /\ cur_segment = Segments(c_width) - 1
    /\ digits = <<>>

\* "for current_segment in (0..segments).rev()": the call
\* get_at::<C::Scalar>(current_segment, c, coeff) of one iteration
GetAtCall ==
    /\ pc = "segments"
    /\ digits' = (cur_segment :> GetAt(cur_segment, c_width, repr)) @@ digits
    /\ IF cur_segment = 0
       THEN pc' = "segments_done" /\ UNCHANGED cur_segment
       ELSE cur_segment' = cur_segment - 1 /\ UNCHANGED pc
    /\ UNCHANGED <<num_threads, envVars, parVars, polyVars, fftVars, msmVars, recVars,
                   c_width, repr>>

DigitNext == GetAtCall

SpecDigits == DigitInit /\ [][DigitNext]_vars

\* bit t of the scalar, bits past the representation reading as 0
ReprBit(bytes, t) == IF t < 8 * Len(bytes) THEN ScalarBit(bytes, t) ELSE 0

\* C20: for every window width the code chooses and every 32-byte scalar,
\* the digit get_at returns for segment w is the c bits of the scalar from
\* bit w * c on, bits past bit 255 reading as 0; so it lies in 0..2^c - 1, a
\* non-zero digit d indexes bucket d - 1 of the 2^c - 1 buckets, and when the
\* loop has ended there are floor(256 / c) + 1 digits, every bit of the
\* scalar is bit (t mod c) of digit (t div c), and every other digit bit is
\* 0: the digits are the base-2^c expansion of s, sum of d_w * 2^(c * w) = s.
C20_DigitsAreWindows ==
    pc \in {"segments", "segments_done"} =>
        /\ \A w \in DOMAIN digits :
              /\ digits[w] \in 0..(Pow2(c_width) - 1)
              /\ digits[w] # 0 => digits[w] \in DOMAIN EmptyBuckets(c_width)
              /\ \A j \in 0..(c_width - 1) :
                    ByteBit(digits[w], j) = ReprBit(repr, w * c_width + j)
        /\ pc = "segments_done" =>
              /\ DOMAIN digits = 0..(ScalarBits \div c_width)
              /\ \A t \in 0..(ScalarBits - 1) :
                    /\ t \div c_width \in DOMAIN digits
                    /\ ByteBit(digits[t \div c_width], t % c_width) = ScalarBit(repr, t)

\* C20 witness: width 5 on the all-ones scalar, whose last digit holds the
\* one bit left at bit 255 and whose digit before it holds five bits.
C20_Witness ==
    /\ pc = "segments_done"
    /\ c_width = 5
    /\ repr = [i \in 1..ReprBytes |-> 255]
    /\ digits[51] = 1
    /\ digits[50] = 31
    /\ Cardinality(DOMAIN digits) = 52

\* ------------------------------- the descent of recursive_butterfly_arithmetic

\* nested calls the model follows before it gives up on a chain that does
\* not end
MaxRecDepth == MaxLogN + 2

\* n - 1 in place of n / 2
HalfMinusOne(n) == n - 1
\* the n / 2 handed to the two joined calls
Half(n) == n \div 2

\* if n == 2
IsBaseCase(n) == n = 2

\* the values of n recursive_butterfly_arithmetic is called with directly
DirectLens == {0, 1} \cup {Pow2(k) : k \in 1..MaxLogN}

\* the buffers of length n tried: all zero, and zero but for the last element
DescentInputs(n) == {Vec([i \in 1..n |-> 0]), Vec([i \in 1..n |-> IF i = n THEN 3 ELSE 0])}

\* a call of cpu_fft with a.len() = 2^log_n on a number of threads at a
\* threshold of log2_floor, or a call of recursive_butterfly_arithmetic(a, n, 1, twiddles) itself
DescentInit ==
    /\ EnvIdle /\ ParIdle /\ PolyIdle /\ MsmIdle /\ DigitIdle
    /\ num_threads \in FftThreads
    /\ a_rev = <<>>
    /\ round = 0
    /\ phase = "forward"
    /\ rec_done = {}
    /\ rec_depth = 0
    /\ \/ /\ pc = "fft_call"
          /\ fft_entry = "cpu_fft"
          /\ log_n \in 0..MaxLogN
          /\ a_buf \in DescentInputs(Pow2(log_n))
          /\ omega \in RootsOfOrder(Pow2(log_n))
          /\ twiddles = <<>>
          /\ rec_n0 = 0
          /\ rec_n = 0
       \/ /\ pc = "rec_call"
          /\ fft_entry = "recursive_butterfly_arithmetic"
          /\ num_threads = 1
          /\ \E n \in DirectLens :
                /\ a_buf \in DescentInputs(n)
                /\ omega \in RootsOfOrder(Max(n, 1))
                /\ log_n = Log2Floor(Max(n, 1))
                /\ twiddles = Twiddles(omega, n)
                /\ rec_n0 = n
                /\ rec_n = n
    /\ a_orig = a_buf
    /\ a_in = a_buf

\* cpu_fft's else branch: recursive_butterfly_arithmetic(a, n, 1, &twiddles)
RecursiveOuterCall ==
    /\ pc = "fft_recursive"
    /\ rec_done = {}
    /\ pc' = "rec_call"
    /\ rec_n0' = Len(a_buf)
    /\ rec_n' = Len(a_buf)
    /\ rec_depth' = 0
    /\ UNCHANGED <<num_threads, envVars, parVars, polyVars, fftVars, msmVars, digitVars>>

\* the call entered last is not the base case: it splits its part at n / 2
\* and joins two calls with n / 2, of which the chain follows one
RecursiveDescend ==
    /\ pc = "rec_call"
    /\ ~IsBaseCase(rec_n)
    /\ rec_depth < MaxRecDepth
    /\ rec_n' = Half(rec_n)
    /\ rec_depth' = rec_depth + 1
    /\ UNCHANGED <<pc, num_threads, envVars, parVars, polyVars, fftVars, msmVars, digitVars,
                   rec_n0>>

\* the call entered last is the base case
RecursiveBase ==
    /\ pc = "rec_call"
    /\ IsBaseCase(rec_n)
    /\ pc' = "rec_base"
    /\ UNCHANGED <<num_threads, envVars, parVars, polyVars, fftVars, msmVars, digitVars,
                   recVars>>

\* the base cases done, every call does its butterflies and returns, the
\* outermost one last
RecursiveUnwind ==
    /\ pc = "rec_base"
    /\ a_buf' = RecursiveButterflyArithmetic(a_buf, rec_n0, 1, twiddles)
    /\ rec_done' = RecCalls(rec_n0)
    /\ pc' = IF fft_entry = "cpu_fft" THEN "fft_recursive" ELSE "rec_returned"
    /\ UNCHANGED <<num_threads, envVars, parVars, polyVars, msmVars, digitVars, recVars,
                   omega, log_n, twiddles, round, a_in, a_rev, a_orig, phase, fft_entry>>

DescentNext ==
    \/ CpuFftEnter
    \/ CpuFftFlatRound
    \/ RecursiveOuterCall
    \/ RecursiveDescend
    \/ RecursiveBase
    \/ RecursiveUnwind
    \/ CpuFftReturn

SpecDescent == DescentInit /\ [][DescentNext]_vars

\* every step of a call is taken in the end: the thread that runs it goes on
SpecDescentLive == SpecDescent /\ WF_vars(DescentNext)

\* what holds in every state of a call
C21_Descent ==
    /\ (fft_entry = "cpu_fft" /\ pc \in {"rec_call", "rec_base"}) =>
          /\ log_n >= 1
          /\ log_n > Log2Floor(num_threads)
          /\ rec_n0 = Pow2(log_n)
    /\ (fft_entry = "cpu_fft" /\ log_n = 0) =>
          /\ pc \in {"fft_call", "fft_flat", "fft_done"}
          /\ a_buf = a_orig
    /\ (pc \in {"rec_call", "rec_base"} /\ rec_n0 >= 2) =>
          /\ rec_n >= 2
          /\ rec_n * Pow2(rec_depth) = rec_n0
          /\ rec_depth <= Log2Floor(rec_n0) - 1
          /\ pc = "rec_base" => (rec_n = 2 /\ rec_depth = Log2Floor(rec_n0) - 1)
    /\ (fft_entry = "recursive_butterfly_arithmetic" /\ rec_n0 < 2) =>
          /\ pc = "rec_call"
          /\ rec_n < 2

C21_Called == pc = "fft_call" \/ (pc = "rec_call" /\ rec_n0 >= 2)
C21_Returned == pc \in {"fft_done", "rec_returned"}

\* C21: every call of cpu_fft with a.len() = 2^log_n returns, for every thread
\* count: it calls recursive_butterfly_arithmetic only with n = 2^log_n >= 2
\* (never for log_n = 0, where a is left as it was), and a call of
\* recursive_butterfly_arithmetic with n a power of two >= 2 reaches the base
\* case n == 2 after log2(n) - 1 halvings and returns, while a call with
\* n < 2 never reaches the base case.
C21_CpuFftTerminates == []C21_Descent /\ (C21_Called ~> C21_Returned)

\* C21 witness: cpu_fft on 8 elements with one thread has reached the base
\* case two calls below the outermost one.
C21_Witness ==
    /\ pc = "rec_base"
    /\ fft_entry = "cpu_fft"
    /\ log_n = 3
    /\ num_threads = 1
    /\ rec_n0 = 8
    /\ rec_n = 2
    /\ rec_depth = 2

====
